---- MODULE Spec2Model ----
(***************************************************************************)
(* Model of src/tts_server.py: the IndexTtsServer worker.                  *)
(*                                                                         *)
(* The constructor loads the model, connects a DEALER socket, sends the    *)
(* one-frame registration message and warms the model up; run() is the     *)
(* blocking receive / synthesize / reply / clean-up loop.  The broker, the *)
(* file system and the IndexTTS model are the environment: every call to   *)
(* them that can raise is a nondeterministic choice between its outcomes.  *)
(***************************************************************************)
EXTENDS Integers, Sequences, FiniteSets, TLC

\* ------------------------------------------------------------------ bounds
MaxRequests == 2      \* envelopes the clients put on the broker in one run
MaxFrames == 5        \* longest envelope a client's request arrives as
MaxFaults == 1        \* calls of the socket or the file system that fail in one run

\* ------------------------------------------------------- program constants
PayloadIndex == 3     \* message[3], 0-based
RoutingPrefix == 3    \* message[:3]

VARIABLES
    pc,          \* position of the process: see PcValues
    self,        \* the long-lived attributes of the IndexTtsServer object
    voiceExists, \* os.path.exists(self.default_voice), a fact of the file system
    broker,      \* envelopes queued at the broker for this worker
    message,     \* run()'s local `message`: Unbound before the first receive
    raisedAt,    \* what raised, while the outer except clause of run() runs
    temp_dir,    \* run()'s local temp_dir (the directory of the current request)
    audio_data,  \* run()'s local audio_data
    status_msg,  \* run()'s local status_msg
    outcome,     \* what the try block of process_text did for the current request
    dirs,        \* temporary directories that exist: name -> content of response.wav
    warmTmp,     \* the NamedTemporaryFile of warm_up_models
    warmStatus,  \* what the warm-up came to: skipped, or the status process_text returned
    calls,       \* the calls of tts.infer_fast made so far
    received,    \* the envelopes recv_multipart returned, in order
    sent,        \* the messages send_multipart sent, in order
    nRequests,   \* envelopes the clients sent so far
    nFaults,     \* socket and file-system calls that failed so far
    fsFault      \* os.remove or os.rmdir failed on something that was there

vars == <<pc, self, voiceExists, broker, message, raisedAt, temp_dir, audio_data,
          status_msg, outcome, dirs, warmTmp, warmStatus, calls, received, sent, nRequests,
          nFaults, fsFault>>

PcValues == {"start", "loaded", "registered", "wait", "processing", "reply",
             "cleanup", "except", "crashed", "aborted"}

Unbound == [id |-> 0, frames |-> <<>>]
NoDir == 0
Absent == [tag |-> "absent", req |-> 0, n |-> 0]     \* no file at the path
Empty == [tag |-> "empty", req |-> 0, n |-> 0]       \* b""
NoStatus == "none"
DirNames == 1..(MaxRequests + 1)

\* ----------------------------------------------------------------- frames
\* A routing frame is opaque; a payload frame is UTF-8 text or bytes that do
\* not decode.  req tags the request a frame was made for.
RoutingFrame(req, i) == [tag |-> "route", req |-> req, n |-> i]
PayloadFrame(req, tag) == [tag |-> tag, req |-> req, n |-> 0]

\* The envelope of N frames the broker hands over for request req: N-1
\* routing frames and the payload frame.
Envelope(req, N, tag) ==
    [i \in 1..N |-> IF i < N THEN RoutingFrame(req, i) ELSE PayloadFrame(req, tag)]

\* The requests the clients make: text in an envelope of any length up to
\* MaxFrames, and bytes that are not UTF-8 in the four-frame envelope whose
\* payload frame run() decodes.
RequestShapes ==
    [N : 1..MaxFrames, tag : {"utf8"}] \cup [N : {PayloadIndex + 1}, tag : {"raw"}]

\* "测试", the dummy text of warm_up_models
dummy_text == [tag |-> "utf8", req |-> 0, n |-> 0]

\* payload.decode('utf-8') raises UnicodeDecodeError on bytes that are not UTF-8
Utf8Valid(frame) == frame.tag # "raw"

\* ------------------------------------------------------------ Python lists
\* message[k] (0-based) raises IndexError unless k < len(message)
HasIndex(frames, k) == k < Len(frames)
Item(frames, k) == frames[k + 1]
\* message[:k]: the first k items, or all of them when there are fewer
Slice(frames, k) == SubSeq(frames, 1, IF k < Len(frames) THEN k ELSE Len(frames))

\* message[:3] + [payload], the argument of both send_multipart calls of run()
ReplyFrames(frames, payload) == Slice(frames, RoutingPrefix) \o <<payload>>

\* A send that puts the message ahead of those already handed to the socket
send_multipart_reordering(log, msg) == <<msg>> \o log

\* socket.send_multipart: the message goes out after those sent before it
send_multipart(log, msg) == Append(log, msg)

\* --------------------------------------------------------- the IndexTTS call
\* tts.infer_fast is an external collaborator.  It may complete having written
\* the output file, complete without writing it, raise without writing, or
\* raise after part of the file was written.  With a voice reference that does
\* not exist it cannot complete.
InferOutcomes(voiceOk) ==
    IF voiceOk THEN {"wrote", "noop", "raised", "raised_partial"} ELSE {"raised"}

\* What the try block of process_text (lines 116-164) can do: os.makedirs
\* raises, a failure of the file system, or infer_fast is called.
TryOutcomes(voiceOk, canFail) ==
    InferOutcomes(voiceOk) \cup (IF canFail THEN {"makedirs_raised"} ELSE {})

\* lines 110-114: the voice reference handed to infer_fast
NoVoice == ""
voice_file_or_default(voice_file, default_voice) ==
    IF voice_file # NoVoice THEN voice_file ELSE default_voice

Completed(o) == o \in {"wrote", "noop"}

\* The content of output_file after the call
FileAfter(before, text, callNo, o) ==
    CASE o = "wrote" -> [tag |-> "wav", req |-> text.req, n |-> callNo]
      [] o = "raised_partial" -> [tag |-> "partial", req |-> text.req, n |-> callNo]
      [] OTHER -> before

StatusOk == "Text processed successfully!"
StatusNoOutput == "Error: IndexTTS failed to generate audio."
StatusException == "Error in text processing"
StatusSkipped == "Skipping warmup"

\* A process_text that trusts the return of infer_fast
process_text_trusting(text, before, callNo, o) ==
    LET after == FileAfter(before, text, callNo, o)
    IN [status |-> IF ~Completed(o) THEN StatusException ELSE StatusOk,
        file |-> after,
        infer |-> o # "makedirs_raised"]

\* process_text(text_data, output_file, voice_file): the status it returns, the
\* file it leaves at output_file and whether infer_fast was called.  It catches
\* every exception of the try block.
process_text(text, before, callNo, o) ==
    LET after == FileAfter(before, text, callNo, o)
    IN [status |-> IF ~Completed(o) THEN StatusException
                   ELSE IF after = Absent THEN StatusNoOutput
                   ELSE StatusOk,
        file |-> after,
        infer |-> o # "makedirs_raised"]

\* A read-back that never opens the artifact
ReadBack_always_empty(file) == Empty

\* lines 182-186 of run(): the bytes read when the artifact exists, else b""
ReadBack(file) == IF file # Absent THEN file ELSE Empty

\* --------------------------------------------------------------- the state
Unset == [service_name |-> "", default_voice |-> "", url |-> "", tts |-> "", socket |-> ""]

Init ==
    /\ pc = "start"
    /\ self = Unset
    /\ voiceExists \in BOOLEAN
    /\ broker = <<>>
    /\ message = Unbound
    /\ raisedAt = "none"
    /\ temp_dir = NoDir
    /\ audio_data = Empty
    /\ status_msg = NoStatus
    /\ outcome = "none"
    /\ dirs = <<>>
    /\ warmTmp = "never"
    /\ warmStatus = NoStatus
    /\ calls = <<>>
    /\ received = <<>>
    /\ sent = <<>>
    /\ nRequests = 0
    /\ nFaults = 0
    /\ fsFault = FALSE

\* A function without the key d
Without(f, d) == [x \in (DOMAIN f) \ {d} |-> f[x]]
With(f, d, v) == [x \in (DOMAIN f) \cup {d} |-> IF x = d THEN v ELSE f[x]]

\* ------------------------------------------------------------- construction
\* __init__, lines 21-74: a missing model file or a failing IndexTTS(...) raises
\* out of the constructor and main() ends.
LoadModel ==
    /\ pc = "start"
    /\ \/ /\ pc' = "loaded"
          /\ self' = [service_name |-> "text-to-wav", default_voice |-> "coXTTS.wav",
                      url |-> "", tts |-> "IndexTTS", socket |-> ""]
       \/ /\ pc' = "aborted"
          /\ self' = self
    /\ UNCHANGED <<voiceExists, broker, message, raisedAt, temp_dir, audio_data, status_msg,
                   outcome, dirs, warmTmp, warmStatus, calls, received, sent, nRequests,
                   nFaults, fsFault>>

\* A registration that puts an empty delimiter frame before the identity
RegistrationMessage_with_delimiter(service_name) ==
    [frames |-> <<Empty, [tag |-> service_name, req |-> 0, n |-> 0]>>,
     for |-> 0, via |-> "register"]

\* line 83: [self.service_name.encode()], one frame
RegistrationMessage(service_name) ==
    [frames |-> <<[tag |-> service_name, req |-> 0, n |-> 0]>>, for |-> 0, via |-> "register"]

\* __init__, lines 76-83: connect the DEALER socket and send the registration
Register ==
    /\ pc = "loaded"
    /\ self' = [self EXCEPT !.url = "tcp://localhost:5560", !.socket = "DEALER"]
    /\ sent' = send_multipart(sent, RegistrationMessage(self.service_name))
    /\ pc' = "registered"
    /\ UNCHANGED <<voiceExists, broker, message, raisedAt, temp_dir, audio_data, status_msg,
                   outcome, dirs, warmTmp, warmStatus, calls, received, nRequests, nFaults,
                   fsFault>>

\* A warm-up whose failure leaves the constructor as an exception
AfterWarmUp_raising(status) == IF status = StatusOk THEN "wait" ELSE "aborted"

\* Where the process is once warm_up_models is over, whatever process_text
\* returned or raised: the constructor returns and main() calls run().
AfterWarmUp(status) == "wait"

\* A temporary file made with delete=False
TempFileAfterWith_kept(status) == "exists"

\* line 94: NamedTemporaryFile(delete=True) is deleted when the with block is
\* left, whatever happened inside it
TempFileAfterWith(status) == "removed"

\* The entry of `calls` for one call of process_text
Call(text, voice, voiceOk, out, infer) ==
    [text |-> text, voice |-> voice, voiceOk |-> voiceOk, out |-> out, infer |-> infer]

\* warm_up_models, lines 88-103, and the return of the constructor into run().
\* The NamedTemporaryFile exists while process_text runs and is deleted when
\* the with block is left.
WarmUp ==
    /\ pc = "registered"
    /\ \/ /\ voiceExists
          /\ \E o \in TryOutcomes(TRUE, nFaults < MaxFaults) :
               LET r == process_text(dummy_text, Empty, Len(calls) + 1, o)
                   voice == voice_file_or_default(self.default_voice, self.default_voice)
               IN /\ calls' = Append(calls, Call(dummy_text, voice, TRUE, NoDir, r.infer))
                  /\ nFaults' = IF r.infer THEN nFaults ELSE nFaults + 1
                  /\ warmStatus' = r.status
                  /\ warmTmp' = TempFileAfterWith(r.status)
                  /\ pc' = AfterWarmUp(r.status)
       \/ /\ ~voiceExists
          /\ UNCHANGED <<calls, nFaults>>
          /\ warmStatus' = StatusSkipped
          /\ warmTmp' = TempFileAfterWith(StatusSkipped)
          /\ pc' = AfterWarmUp(StatusSkipped)
    /\ UNCHANGED <<self, voiceExists, broker, message, raisedAt, temp_dir, audio_data,
                   status_msg, outcome, dirs, received, sent, nRequests, fsFault>>

\* ---------------------------------------------------------------- clients
\* A client's request reaches the broker, which queues it for this worker as an
\* envelope of N frames.
ClientSend ==
    /\ pc \in {"wait", "processing", "reply", "cleanup", "except"}
    /\ nRequests < MaxRequests
    /\ \E shape \in RequestShapes :
         broker' = Append(broker, [id |-> nRequests + 1,
                                   frames |-> Envelope(nRequests + 1, shape.N, shape.tag)])
    /\ nRequests' = nRequests + 1
    /\ UNCHANGED <<pc, self, voiceExists, message, raisedAt, temp_dir, audio_data, status_msg,
                   outcome, dirs, warmTmp, warmStatus, calls, received, sent, nFaults, fsFault>>

\* ------------------------------------------------------------------- run()
\* line 170, recv_multipart returns the next envelope
Recv ==
    /\ pc = "wait"
    /\ broker # <<>>
    /\ message' = Head(broker)
    /\ broker' = Tail(broker)
    /\ received' = Append(received, Head(broker))
    /\ pc' = "processing"
    /\ UNCHANGED <<self, voiceExists, raisedAt, temp_dir, audio_data, status_msg, outcome,
                   dirs, warmTmp, warmStatus, calls, sent, nRequests, nFaults, fsFault>>

\* line 170, recv_multipart raises: control goes to the except clause of line
\* 196 with `message` as the previous iteration left it
RecvRaises ==
    /\ pc = "wait"
    /\ nFaults < MaxFaults
    /\ nFaults' = nFaults + 1
    /\ raisedAt' = "recv"
    /\ pc' = "except"
    /\ UNCHANGED <<self, voiceExists, broker, message, temp_dir, audio_data, status_msg,
                   outcome, dirs, warmTmp, warmStatus, calls, received, sent, nRequests,
                   fsFault>>

\* A fixed scratch directory used for every request
mkdtemp_fixed(existing) == 1

\* tempfile.mkdtemp creates a directory under a name that no existing one has.
\* Names are interchangeable, so the model takes the first free one; a name
\* whose directory was removed can be handed out again.
mkdtemp(existing) ==
    CHOOSE d \in DirNames \ existing : \A e \in DirNames \ existing : d <= e

\* The content of response.wav in directory d: Absent when there is no file or
\* no directory
FileAt(ds, d) == IF d \in DOMAIN ds THEN ds[d] ELSE Absent

\* A loop that makes the directory before it looks at the envelope
DirsAtIndexError_allocating(ds) == With(ds, mkdtemp(DOMAIN ds), Absent)

\* lines 171-173: message[3] raises IndexError before mkdtemp is reached
DirsAtIndexError(ds) == ds

\* lines 173-186: the directory and the file process_text left in it are still
\* there when the bytes have been read
DirsAfterReadBack(ds, d, file) == With(ds, d, file)

\* A fallback that stores the voice reference in the object
self_after_process_text_rebinding(obj, voice_file) ==
    [obj EXCEPT !.default_voice = voice_file]

\* lines 110-114: the fallback assigns the local voice_file, the object is
\* left as it was
self_after_process_text(obj, voice_file) == obj

\* lines 171-186: payload = message[3], mkdtemp, decode, process_text and the
\* read of the artifact.
Process ==
    /\ pc = "processing"
    /\ IF ~HasIndex(message.frames, PayloadIndex)
       THEN /\ raisedAt' = "index"
            /\ pc' = "except"
            /\ dirs' = DirsAtIndexError(dirs)
            /\ UNCHANGED <<self, temp_dir, audio_data, status_msg, outcome, calls, nFaults>>
       ELSE LET payload == Item(message.frames, PayloadIndex)
                d == mkdtemp(DOMAIN dirs)
            IN /\ temp_dir' = d
               /\ IF ~Utf8Valid(payload)
                  THEN /\ raisedAt' = "decode"
                       /\ pc' = "except"
                       /\ dirs' = With(dirs, d, FileAt(dirs, d))
                       /\ UNCHANGED <<self, audio_data, status_msg, outcome, calls, nFaults>>
                  ELSE \E o \in TryOutcomes(voiceExists, nFaults < MaxFaults) :
                       LET r == process_text(payload, FileAt(dirs, d), Len(calls) + 1, o)
                           voice == voice_file_or_default(NoVoice, self.default_voice)
                           tried == IF r.infer THEN nFaults ELSE nFaults + 1
                       IN /\ calls' = Append(calls, Call(payload, voice, voiceExists, d, r.infer))
                          /\ self' = self_after_process_text(self, NoVoice)
                          /\ status_msg' = r.status
                          /\ outcome' = o
                          /\ dirs' = DirsAfterReadBack(dirs, d, r.file)
                          /\ \/ /\ audio_data' = ReadBack(r.file)
                                /\ pc' = "reply"
                                /\ raisedAt' = raisedAt
                                /\ nFaults' = tried
                             \/ /\ r.file # Absent      \* open() or read() raises
                                /\ tried < MaxFaults
                                /\ nFaults' = tried + 1
                                /\ audio_data' = audio_data
                                /\ pc' = "except"
                                /\ raisedAt' = "read"
    /\ UNCHANGED <<voiceExists, broker, message, warmTmp, warmStatus, received, sent,
                   nRequests, fsFault>>

\* line 188: the reply of the normal path; send_multipart may raise
Reply ==
    /\ pc = "reply"
    /\ \/ /\ sent' = send_multipart(sent, [frames |-> ReplyFrames(message.frames, audio_data),
                                           for |-> message.id, via |-> "normal"])
          /\ pc' = "cleanup"
          /\ raisedAt' = raisedAt
          /\ nFaults' = nFaults
       \/ /\ nFaults < MaxFaults
          /\ nFaults' = nFaults + 1
          /\ sent' = sent
          /\ pc' = "except"
          /\ raisedAt' = "send"
    /\ UNCHANGED <<self, voiceExists, broker, message, temp_dir, audio_data, status_msg,
                   outcome, dirs, warmTmp, warmStatus, calls, received, nRequests, fsFault>>

\* A clean-up whose failure is not caught where it happens
AfterCleanup_propagating(failed) == IF failed THEN "except" ELSE "wait"

\* lines 190-194: whether or not os.remove or os.rmdir raised, the inner except
\* clause ends the iteration and the loop is at line 170 again
AfterCleanup(failed) == "wait"

\* lines 190-194: os.remove raises when the file is not there (or cannot be
\* removed) and then os.rmdir is not reached; os.rmdir may raise as well.  The
\* inner except clause swallows either and the loop goes back to line 170.
\* temp_dir, audio_data and status_msg are assigned again before they are next
\* read, so the model forgets them here.
Cleanup ==
    /\ pc = "cleanup"
    /\ \/ /\ FileAt(dirs, temp_dir) # Absent                 \* both removed
          /\ dirs' = Without(dirs, temp_dir)
          /\ pc' = AfterCleanup(FALSE)
          /\ UNCHANGED <<fsFault, nFaults>>
       \/ /\ FileAt(dirs, temp_dir) = Absent                 \* os.remove raised:
          /\ dirs' = dirs                                   \* there is no file
          /\ pc' = AfterCleanup(TRUE)
          /\ UNCHANGED <<fsFault, nFaults>>
       \/ /\ FileAt(dirs, temp_dir) # Absent                 \* os.remove raised
          /\ nFaults < MaxFaults                            \* on the file
          /\ dirs' = dirs
          /\ pc' = AfterCleanup(TRUE)
          /\ fsFault' = TRUE
          /\ nFaults' = nFaults + 1
       \/ /\ FileAt(dirs, temp_dir) # Absent                 \* os.rmdir raised
          /\ nFaults < MaxFaults
          /\ dirs' = [dirs EXCEPT ![temp_dir] = Absent]
          /\ pc' = AfterCleanup(TRUE)
          /\ fsFault' = TRUE
          /\ nFaults' = nFaults + 1
    /\ raisedAt' = IF pc' = "except" THEN "cleanup" ELSE raisedAt
    /\ temp_dir' = NoDir
    /\ audio_data' = Empty
    /\ status_msg' = NoStatus
    /\ outcome' = "none"
    /\ UNCHANGED <<self, voiceExists, broker, message, warmTmp, warmStatus, calls, received,
                   sent, nRequests>>

\* An except clause that only logs
ExceptSend_log_only(log, msg) == log

\* line 199, what the except clause sends: the empty payload behind the
\* routing prefix of `message`
ExceptSend(log, msg) ==
    send_multipart(log, [frames |-> ReplyFrames(msg.frames, Empty),
                         for |-> msg.id, via |-> "except"])

\* lines 196-199: the outer except clause.  Reading `message` before it was
\* ever assigned raises UnboundLocalError, and so may send_multipart: either
\* leaves run().
Except ==
    /\ pc = "except"
    /\ \/ /\ message = Unbound
          /\ pc' = "crashed"
          /\ UNCHANGED <<sent, nFaults>>
       \/ /\ message # Unbound
          /\ sent' = ExceptSend(sent, message)
          /\ pc' = "wait"
          /\ nFaults' = nFaults
       \/ /\ message # Unbound
          /\ nFaults < MaxFaults
          /\ nFaults' = nFaults + 1
          /\ sent' = sent
          /\ pc' = "crashed"
    /\ raisedAt' = IF pc' = "crashed" THEN raisedAt ELSE "none"
    /\ temp_dir' = NoDir
    /\ audio_data' = Empty
    /\ status_msg' = NoStatus
    /\ outcome' = "none"
    /\ UNCHANGED <<self, voiceExists, broker, message, dirs, warmTmp, warmStatus, calls,
                   received, nRequests, fsFault>>

Next ==
    \/ LoadModel
    \/ Register
    \/ WarmUp
    \/ ClientSend
    \/ Recv
    \/ RecvRaises
    \/ Process
    \/ Reply
    \/ Cleanup
    \/ Except

Spec == Init /\ [][Next]_vars

TypeOK ==
    /\ pc \in PcValues
    /\ DOMAIN dirs \subseteq DirNames
    /\ Len(broker) <= MaxRequests

\* ------------------------------------------------------ reading the history
IsReply(m) == m.via # "register"
Payload(m) == m.frames[Len(m.frames)]
LastSent == sent[Len(sent)]
\* The positions in `sent` of the replies that carry request id's routing frames
Replies(id) == {i \in 1..Len(sent) : IsReply(sent[i]) /\ sent[i].for = id}
\* The requests received so far that no reply was sent for
Unreplied == {i \in 1..Len(received) : Replies(received[i].id) = {}}
\* The frames request id arrived with
RequestFrames(id) == received[CHOOSE i \in 1..Len(received) : received[i].id = id].frames
\* infer_fast calls made by run(), not by the warm-up
RunCalls == {i \in 1..Len(calls) : calls[i].out # NoDir}
WarmUpFailed == warmStatus \in {StatusSkipped, StatusException, StatusNoOutput}

\* ------------------------------------------------------------------ claims

\* C1: every envelope run() received gets exactly one reply, never none and
\* never more than one, and it is sent before the loop next blocks on receive.
C1_ExactlyOneReply ==
    \A i \in 1..Len(received) :
        /\ Cardinality(Replies(received[i].id)) <= 1
        /\ pc = "wait" => Cardinality(Replies(received[i].id)) = 1

\* C2: the reply to a request of N frames has N frames: the request's N-1
\* routing frames in order, then the payload frame; the request's payload frame
\* is never echoed as a routing frame.
C2_ReplyFraming ==
    \A i \in 1..Len(sent) :
        IsReply(sent[i]) =>
            LET req == RequestFrames(sent[i].for)
                N == Len(req)
                rep == sent[i].frames
            IN /\ Len(rep) = N
               /\ SubSeq(rep, 1, N - 1) = SubSeq(req, 1, N - 1)
               /\ \A j \in 1..(Len(rep) - 1) : rep[j] # req[N]

\* C3: when recv_multipart raises, the loop sends nothing and goes back to
\* waiting.
C3_RecvRaiseSendsNothing ==
    [][(pc = "except" /\ raisedAt = "recv" /\ pc' # pc) => (sent' = sent /\ pc' = "wait")]_vars

\* C4: no exception ever leaves run(): the loop has no terminal state.
C4_RunNeverExits == pc # "crashed"

\* C5: back at the receive, no temporary directory of an earlier request
\* exists, provided os.remove and os.rmdir did not fail on what was there.
C5_NoLeftoverWorkspace == (pc = "wait" /\ ~fsFault) => DOMAIN dirs = {}

\* C6: a request whose synthesis reported failure is answered with the empty
\* payload, even if a partial artifact file exists.
C6_FailureRepliesEmpty ==
    (pc = "cleanup" /\ status_msg # StatusOk) => Payload(LastSent) = Empty

\* C7 as stated: whenever synthesis succeeded, the reply sent for the request
\* carries exactly the bytes of its artifact file.
C7_SuccessRepliesArtifact ==
    [][(Len(sent') > Len(sent) /\ status_msg = StatusOk)
         => Payload(sent'[Len(sent')]) = dirs[temp_dir]]_vars

\* C7 amended: whenever synthesis succeeded, the reply of line 188 carries
\* exactly the bytes of the request's artifact file, which still exists when it
\* is sent; the reply sent instead when the read or the send raised is empty.
C7_SuccessRepliesArtifactUnlessRaised ==
    [][(Len(sent') > Len(sent) /\ status_msg = StatusOk)
         => IF pc = "reply"
            THEN /\ Payload(sent'[Len(sent')]) = dirs[temp_dir]
                 /\ dirs[temp_dir] # Absent
                 /\ dirs' = dirs
            ELSE /\ raisedAt \in {"read", "send"}
                 /\ Payload(sent'[Len(sent')]) = Empty]_vars

C7_Witness ==
    /\ pc = "cleanup"
    /\ status_msg = StatusOk
    /\ Payload(LastSent).tag = "wav"
    /\ Payload(LastSent) = dirs[temp_dir]

\* C8: a warm-up that was skipped or failed never aborts startup: the process
\* is in run(), and requests are served.
C8_WarmUpFailureNotFatal ==
    WarmUpFailed => pc \in {"wait", "processing", "reply", "cleanup", "except", "crashed"}

C8_Witness ==
    /\ WarmUpFailed
    /\ pc = "wait"
    /\ \E i \in 1..Len(sent) : IsReply(sent[i]) /\ Payload(sent[i]).tag = "wav"

\* C9: replies go out in the order the requests were received: every reply to
\* an earlier request precedes every reply to a later one, and a later request
\* is not answered before the earlier one was.
C9_RepliesInOrder ==
    \A a, b \in 1..Len(received) :
        a < b =>
            /\ \A i \in Replies(received[a].id), j \in Replies(received[b].id) : i < j
            /\ Replies(received[b].id) # {} => Replies(received[a].id) # {}

C9_Witness ==
    /\ Len(received) = 2
    /\ \E i \in Replies(received[1].id) : sent[i].via = "except"
    /\ Replies(received[2].id) # {}

\* C10: the worker has at most one request in processing: it receives the next
\* envelope, and calls the model again, only after the reply to the current
\* request was sent.
C10_OneRequestAtATime ==
    /\ Unreplied \subseteq {Len(received)}
    /\ pc = "wait" => Unreplied = {}
    /\ pc \in {"processing", "reply"} => Unreplied = {Len(received)}
    /\ \A i \in RunCalls : \E k \in 1..Len(received) : received[k].id = calls[i].text.req
    /\ \A i, j \in RunCalls : calls[i].text.req = calls[j].text.req => i = j
    /\ pc = "processing" => \A i \in RunCalls : calls[i].text.req # message.id

C10_Witness ==
    /\ pc \in {"processing", "reply"}
    /\ broker # <<>>
    /\ Len(received) = 1

C12_ThreeOutcomes ==
    status_msg # NoStatus =>
        LET completed == outcome \in {"wrote", "noop"}
            exists == FileAt(dirs, temp_dir) # Absent
        IN /\ status_msg \in {StatusOk, StatusNoOutput, StatusException}
           /\ status_msg = StatusOk <=> (completed /\ exists)
           /\ status_msg = StatusNoOutput <=> (completed /\ ~exists)
           /\ status_msg = StatusException
                <=> outcome \in {"raised", "raised_partial", "makedirs_raised"}
           /\ \/ pc \in {"reply", "cleanup"}
              \/ pc = "except" /\ raisedAt \in {"read", "send"}

C12_Witness ==
    /\ pc = "reply"
    /\ outcome = "noop"
    /\ status_msg = StatusNoOutput
    /\ \E i \in RunCalls : calls[i].infer /\ calls[i].out = temp_dir

\* C13: a failure of os.remove or os.rmdir in run() is only logged: the step
\* that cleans up always ends at the receive, never in the outer except
\* clause, sends nothing, and leaves the request with its one reply.
C13_CleanupFailureContained ==
    [][(pc = "cleanup" /\ pc' # pc)
         => /\ pc' = "wait"
            /\ sent' = sent
            /\ raisedAt' = raisedAt
            /\ Cardinality(Replies(message.id)) = 1]_vars

C13_Witness ==
    /\ pc = "wait"
    /\ fsFault
    /\ DOMAIN dirs # {}
    /\ Len(received) = 1
    /\ Cardinality(Replies(received[1].id)) = 1

\* process_text calls made by warm_up_models
WarmCalls == {i \in 1..Len(calls) : calls[i].out = NoDir}
InRun == pc \in {"wait", "processing", "reply", "cleanup", "except", "crashed"}

\* C14: startup happens in a fixed order, each step once: the one-frame
\* registration with the service identity is the first message sent, on the
\* connected socket; the warm-up runs once, after it; run() receives only after
\* the warm-up is over; no registration is sent again.
C14_StartupOrder ==
    /\ Cardinality({i \in 1..Len(sent) : ~IsReply(sent[i])}) <= 1
    /\ sent # <<>> =>
         /\ sent[1].via = "register"
         /\ sent[1].frames = <<[tag |-> "text-to-wav", req |-> 0, n |-> 0]>>
         /\ self.socket = "DEALER"
    /\ pc \in {"start", "loaded"} => sent = <<>>
    /\ pc \in {"start", "loaded", "registered"} => warmTmp = "never" /\ calls = <<>>
    /\ pc = "registered" => Len(sent) = 1
    /\ warmTmp # "never" => sent # <<>>
    /\ Cardinality(WarmCalls) <= 1
    /\ (InRun \/ received # <<>>) => (warmStatus # NoStatus /\ warmTmp # "never")

C14_Witness ==
    /\ pc = "wait"
    /\ Len(received) = 2
    /\ Cardinality(WarmCalls) = 1
    /\ Len(sent) >= 3

\* C15: at the moment the reply of a request is sent (line 188), the artifact
\* file and the directory of that request no longer exist.
C15_WorkspaceGoneAtReply ==
    pc = "reply" => (temp_dir \notin DOMAIN dirs /\ FileAt(dirs, temp_dir) = Absent)

\* C16 as stated: once warm_up_models is over it has made exactly one
\* process_text call, with the dummy text, and its temporary file is gone.
C16_WarmUpOneCall ==
    warmStatus # NoStatus =>
        /\ Cardinality(WarmCalls) = 1
        /\ \A i \in WarmCalls : calls[i].text = dummy_text
        /\ warmTmp = "removed"

\* C16, amended: warm_up_models makes one process_text call, with the dummy
\* text and the default voice, when the default voice file exists and none
\* when it does not; before warm-up nothing is called; in every outcome the
\* temporary file is gone when warm_up_models is over, and no later step
\* adds a warm-up call.
C16_WarmUpOneCallIfVoice ==
    /\ warmStatus = NoStatus => (WarmCalls = {} /\ warmTmp = "never")
    /\ warmStatus # NoStatus =>
        /\ Cardinality(WarmCalls) = (IF voiceExists THEN 1 ELSE 0)
        /\ \A i \in WarmCalls : /\ i = 1
                                /\ calls[i].text = dummy_text
                                /\ calls[i].voice = self.default_voice
        /\ voiceExists <=> warmStatus # StatusSkipped
        /\ warmTmp = "removed"

C16_Witness ==
    /\ warmStatus = StatusException
    /\ warmTmp = "removed"
    /\ Cardinality(WarmCalls) = 1
    /\ InRun

\* Two frames carry the same bytes: req only records which request a frame
\* came with
SameText(f, g) == f.tag = g.tag /\ f.n = g.n

\* Both requests received so far were read by process_text with the same text
\* and the same voice reference, and each has been answered once
SameRequestTwice ==
    /\ Len(received) = 2
    /\ \A i \in 1..2 : /\ HasIndex(received[i].frames, PayloadIndex)
                       /\ Utf8Valid(Item(received[i].frames, PayloadIndex))
                       /\ Cardinality(Replies(received[i].id)) = 1
    /\ SameText(Item(received[1].frames, PayloadIndex),
                Item(received[2].frames, PayloadIndex))
    /\ Cardinality(RunCalls) = 2
    /\ \A i, j \in RunCalls : calls[i].voice = calls[j].voice

\* C17: two requests with the same text and voice, one after the other, get
\* directories that do not collide, and after both replies neither directory
\* exists (no removal call having failed on an existing file or directory).
C17_SameRequestTwiceCleaned ==
    (pc = "wait" /\ SameRequestTwice /\ ~fsFault /\ nFaults = 0) =>
        /\ DOMAIN dirs = {}
        /\ \A i \in RunCalls : calls[i].out \notin DOMAIN dirs

\* C18: no step of run() changes the long-lived state of the worker: the model
\* handle, the service identity, the default voice reference, the broker
\* address and the socket are after every step of a request, successful or
\* failing, what they were before it.
C18_SelfUnchangedByRun ==
    [][InRun => /\ self'.tts = self.tts
                /\ self'.service_name = self.service_name
                /\ self'.default_voice = self.default_voice
                /\ self'.url = self.url
                /\ self'.socket = self.socket
                /\ self' = self]_vars

C18_Witness ==
    /\ pc = "wait"
    /\ \E i, j \in 1..Len(sent) :
         /\ IsReply(sent[i]) /\ Payload(sent[i]).tag = "wav"
         /\ IsReply(sent[j]) /\ Payload(sent[j]) = Empty
    /\ \E i \in RunCalls : calls[i].voice = self.default_voice
    /\ self.default_voice # NoVoice

\* C19: the payload of every reply is empty or is what the infer_fast call
\* made for that same request wrote to response.wav in that request's own
\* directory; no reply carries bytes produced for another request.
C19_ReplyPayloadIsOwnArtifact ==
    /\ \A i \in 1..Len(sent) :
         IsReply(sent[i]) =>
            \/ Payload(sent[i]) = Empty
            \/ /\ sent[i].via = "normal"
               /\ Payload(sent[i]).tag \in {"wav", "partial"}
               /\ Payload(sent[i]).req = sent[i].for
               /\ Payload(sent[i]).n \in RunCalls
               /\ calls[Payload(sent[i]).n].text.req = sent[i].for
               /\ calls[Payload(sent[i]).n].infer
    /\ pc = "reply" =>
         /\ audio_data = ReadBack(FileAt(dirs, temp_dir))
         /\ audio_data # Empty => (audio_data.req = message.id /\ audio_data.n = Len(calls))

C19_Witness ==
    /\ Len(received) = 2
    /\ \A r \in 1..2 : \E i \in Replies(received[r].id) :
         /\ Payload(sent[i]).tag = "wav"
         /\ Payload(sent[i]).req = received[r].id

\* C20: a step of run() that ends in the except clause because
\* recv_multipart raised or because the envelope has no frame 3 makes no
\* directory and has none to clean up; a directory is bound to temp_dir only
\* for an envelope that has the payload frame.
C20_NoWorkspaceBeforePayload ==
    [][/\ (pc # "except" /\ pc' = "except" /\ raisedAt' \in {"recv", "index"}) =>
            /\ dirs' = dirs
            /\ temp_dir = NoDir
            /\ temp_dir' = NoDir
       /\ temp_dir' # NoDir => HasIndex(message'.frames, PayloadIndex)]_vars

C20_Witness ==
    /\ pc = "except"
    /\ raisedAt = "index"
    /\ message # Unbound
    /\ ~HasIndex(message.frames, PayloadIndex)
    /\ DOMAIN dirs = {}
    /\ temp_dir = NoDir

====
